---- MODULE Spec2Model ----
(***************************************************************************)
(* The reveal game of the connection network (pages/ConnectGame.tsx):      *)
(* the accepted-edge list, the GameState record kept with useState, and    *)
(* the handlers startNewGame, handleSearchWithName (called directly by     *)
(* handleSearch and, deferred with setTimeout, by selectSuggestion) and    *)
(* the timer effect.                                                       *)
(*                                                                         *)
(* A handler of a React function component reads gameState from the render *)
(* it was created in (its closure) and writes through functional updaters  *)
(* setGameState(prev => ...), which are applied to the state current at    *)
(* the time of the call.  A handler called from an event uses the closure  *)
(* of the current render; the call deferred by selectSuggestion keeps the  *)
(* closure of the render in which the suggestion was selected.             *)
(***************************************************************************)
EXTENDS Integers, Sequences, FiniteSets, TLC

VARIABLES
    loading,      \* useState(true), ConnectGame.tsx:84
    connections,  \* useState<Connection[]>([]), ConnectGame.tsx:82
    gameState,    \* useState<GameState>, ConnectGame.tsx:64
    pending,      \* calls scheduled by selectSuggestion's setTimeout, oldest first
    result,       \* what the last handler reported (searchError text / alert)
    fnCall,       \* the last application of a function examined on its own:
                  \* its arguments (outcomes of Math.random included) and its value
    searchQuery,  \* useState(''), the text of the search field
    searchError,  \* useState<string | null>(null), ConnectGame.tsx:87
    hint,         \* useState(''), ConnectGame.tsx:85
    db,           \* public.connections: its rows and whether it has the
                  \* status column yet
    graphConnections, \* useState<Connection[]>([]) of NetworkGraph
    selectedPerson,   \* useState<string | null>(null) of NetworkGraph
    cy                \* the Cytoscape instance of NetworkGraph: the
                      \* selectedPerson its tap handler was created with, the
                      \* classes its elements carry, and the highlight the
                      \* restoring effect has scheduled

vars == <<loading, connections, gameState, pending, result, fnCall,
          searchQuery, searchError, hint, db, graphConnections,
          selectedPerson, cy>>

\* the selection of the graph and its Cytoscape instance
viewState == <<selectedPerson, cy>>

\* no Cytoscape instance yet
NoInstance == [ built |-> FALSE ]

\* the table and the graph component; the game specifications take what
\* fetchData delivers as an input (EdgeLists) and leave these alone
dbState == <<db, graphConnections, selectedPerson, cy>>

\* public.connections as recreated by the first migration, before any insert
\* (names: the names of the rows of public.names)
NoTable == [ rows |-> << >>, statusColumn |-> FALSE, names |-> {} ]

\* the search field, the error under it and the hint
pageState == <<searchQuery, searchError, hint>>

----------------------------------------------------------------------------
(* Bounds of the model *)

\* rows of the connections table
MaxRows == 3
\* the attempt cap of a session; the code sets maxAttempts: 100 (lines 73, 519)
MaxAttempts == 2
\* deferred calls that may be waiting at once
MaxPending == 1
\* events handled between a selectSuggestion and its deferred call
MaxGap == 1

\* the sampling budget of startNewGame; the code draws up to 100 pairs (line 472)
SampleBudget == 3

\* edges of a graph on which the graph functions are examined on their own
MaxEdges == 3

\* (name1, name2) rows of the connections table, in stored orientation; the
\* table of the model repeats them in this order up to MaxRows rows.  The
\* first row joins a person to themself, so that the accepted rows may hold
\* a single person only
RowCycle == << <<"D", "D">>, <<"A", "B">>, <<"C", "B">>, <<"C", "D">>, <<"B", "A">> >>

\* what the player may type: names of the network, padded names, a name that
\* is in no edge, and blank text
RawInputs == { "A", "B", "C", "D", " B ", "Z", " " }

\* elapsed milliseconds the timer may report
TimeValues == { 0, 301000 }

\* findShortestPath returning null (a path is never empty)
NoPath == << >>

\* no function has been examined on its own
NoCall == [ fn |-> "none" ]

----------------------------------------------------------------------------
(* Helpers over sequences *)

Range(s) == { s[i] : i \in DOMAIN s }

RECURSIVE Dedup(_, _)
\* insertion order of a JS Set fed the elements of s (seen: already inserted)
Dedup(s, seen) ==
    IF s = << >> THEN << >>
    ELSE IF Head(s) \in seen THEN Dedup(Tail(s), seen)
         ELSE << Head(s) >> \o Dedup(Tail(s), seen \cup { Head(s) })

\* String.prototype.trim on the texts of RawInputs and FormPairs
Trim(s) ==
    CASE s = " "   -> ""
      [] s = " B " -> "B"
      [] s = " C"  -> "C"
      [] s = "B "  -> "B"
      [] OTHER     -> s

----------------------------------------------------------------------------
(* Graph queries over the edge list *)

Conn(p) == [ name1 |-> p[1], name2 |-> p[2] ]

\* the connections table: row i is RowCycle taken cyclically
Table == [ i \in 1..MaxRows |-> Conn(RowCycle[((i - 1) % Len(RowCycle)) + 1]) ]

\* the rows of Table whose index is in accepted, in table order
RECURSIVE AcceptedRows(_, _)
AcceptedRows(i, accepted) ==
    IF i > Len(Table) THEN << >>
    ELSE IF i \in accepted THEN << Table[i] >> \o AcceptedRows(i + 1, accepted)
         ELSE AcceptedRows(i + 1, accepted)

\* the edge lists fetchData may deliver: the rows with status 'accepted'
EdgeLists == { AcceptedRows(1, accepted) : accepted \in SUBSET (1..MaxRows) }

RECURSIVE NamesInOrder(_)
NamesInOrder(conns) ==
    IF conns = << >> THEN << >>
    ELSE << Head(conns).name1, Head(conns).name2 >> \o NamesInOrder(Tail(conns))

\* allPeople as an insertion-ordered Set turned into an array
PeopleArray(conns) == Dedup(NamesInOrder(conns), {})

\* allPeople as a set
AllPeople(conns) == Range(PeopleArray(conns))

RECURSIVE getConnectionsIn(_, _)
getConnectionsIn(conns, personName) ==
    IF conns = << >> THEN << >>
    ELSE LET c == Head(conns)
             rest == getConnectionsIn(Tail(conns), personName)
         IN IF c.name1 = personName \/ c.name2 = personName
            THEN << IF c.name1 = personName THEN c.name2 ELSE c.name1 >> \o rest
            ELSE rest

getConnections(personName) == getConnectionsIn(connections, personName)

\* mutant: two people are connected when exactly one row joins them
areDirectlyConnected_OneRow(person1, person2) ==
    Cardinality({ i \in DOMAIN connections :
        \/ connections[i].name1 = person1 /\ connections[i].name2 = person2
        \/ connections[i].name1 = person2 /\ connections[i].name2 = person1 }) = 1

\* mutant: only the stored orientation of a row is looked at
areDirectlyConnected_Stored(person1, person2) ==
    \E i \in DOMAIN connections :
        connections[i].name1 = person1 /\ connections[i].name2 = person2

areDirectlyConnected(person1, person2) ==
    \E i \in DOMAIN connections :
        \/ connections[i].name1 = person1 /\ connections[i].name2 = person2
        \/ connections[i].name1 = person2 /\ connections[i].name2 = person1

----------------------------------------------------------------------------
(* Connectivity of the revealed subgraph: isGraphConnected *)

RECURSIVE PushRevealed(_, _, _, _)
\* the forEach over revealedConnections that feeds the queue
PushRevealed(conns, current, visited, queue) ==
    IF conns = << >> THEN queue
    ELSE LET c  == Head(conns)
             q1 == IF c.source = current /\ c.target \notin visited
                   THEN Append(queue, c.target) ELSE queue
             q2 == IF c.target = current /\ c.source \notin visited
                   THEN Append(q1, c.source) ELSE q1
         IN PushRevealed(Tail(conns), current, visited, q2)

RECURSIVE ConnectedLoop(_, _, _, _)
\* the while loop of isGraphConnected
ConnectedLoop(revealedConnections, targetPerson, visited, queue) ==
    IF queue = << >> THEN FALSE
    ELSE LET current == Head(queue)
             seen    == visited \cup { current }
         IN IF current \in visited
            THEN ConnectedLoop(revealedConnections, targetPerson, visited, Tail(queue))
            ELSE IF current = targetPerson THEN TRUE
            ELSE ConnectedLoop(revealedConnections, targetPerson, seen,
                               PushRevealed(revealedConnections, current, seen, Tail(queue)))

isGraphConnected(revealedConnections, startPerson, targetPerson) ==
    IF Len(revealedConnections) = 0 THEN FALSE
    ELSE ConnectedLoop(revealedConnections, targetPerson, {}, << startPerson >>)

----------------------------------------------------------------------------
(* Shortest path over the full graph: findShortestPath *)

RECURSIVE ScanConnections(_, _, _, _, _)
\* the for loop over personConnections: either returns a path or extends the queue
ScanConnections(personConnections, target, path, visited, queue) ==
    IF personConnections = << >> THEN [ found |-> NoPath, queue |-> queue ]
    ELSE LET connection == Head(personConnections)
         IN IF connection = target
            THEN [ found |-> Append(path, connection), queue |-> queue ]
            ELSE ScanConnections(Tail(personConnections), target, path, visited,
                    IF connection \notin visited
                    THEN Append(queue, [ person |-> connection,
                                         path |-> Append(path, connection) ])
                    ELSE queue)

RECURSIVE PathLoop(_, _, _)
\* the while loop of findShortestPath
PathLoop(target, visited, queue) ==
    IF queue = << >> THEN NoPath
    ELSE LET item == Head(queue)
             seen == visited \cup { item.person }
             scan == ScanConnections(getConnections(item.person), target,
                                     item.path, seen, Tail(queue))
         IN IF item.person \in visited THEN PathLoop(target, visited, Tail(queue))
            ELSE IF scan.found # NoPath THEN scan.found
            ELSE PathLoop(target, seen, scan.queue)

\* mutant: the search is started even when start is the target
findShortestPath_NoShortcut(start, target) ==
    PathLoop(target, {}, << [ person |-> start, path |-> << start >> ] >>)

findShortestPath(start, target) ==
    IF start = target THEN << start >>
    ELSE PathLoop(target, {}, << [ person |-> start, path |-> << start >> ] >>)

----------------------------------------------------------------------------
(* The session: GameState and its handlers *)

\* the state the component is constructed with (useState initial value)
InitialGameState ==
    [ startPerson |-> "", targetPerson |-> "",
      revealedPeople |-> << >>, revealedConnections |-> << >>,
      gameStarted |-> FALSE, gameWon |-> FALSE, gameLost |-> FALSE,
      attempts |-> 0, maxAttempts |-> MaxAttempts,
      timeElapsed |-> 0, score |-> 0 ]

\* Set.prototype.has on revealedPeople (kept in insertion order)
Revealed(gs) == Range(gs.revealedPeople)

Max(a, b) == IF a >= b THEN a ELSE b

\* mutant: any two distinct people joined by a path are accepted
Qualifies_AnyPath(randomStart, randomTarget) ==
    /\ randomStart # randomTarget
    /\ findShortestPath(randomStart, randomTarget) # NoPath

\* the pair accepted by the test inside the sampling loop
Qualifies(randomStart, randomTarget) ==
    /\ randomStart # randomTarget
    /\ ~areDirectlyConnected(randomStart, randomTarget)
    /\ LET path == findShortestPath(randomStart, randomTarget)
       IN path # NoPath /\ Len(path) >= 3 /\ Len(path) <= 6

RECURSIVE SampleLoop(_, _, _, _, _)
\* can the while loop end with <<startPerson, targetPerson>> = out, for some
\* outcome of Math.random?  <<"", "">>: the loop ends without a pair.
\* accepted: the draws the test accepts; canReject: some draw fails the test
SampleLoop(out, peopleArray, accepted, canReject, attempts) ==
    IF attempts < SampleBudget /\ Len(peopleArray) >= 2
    THEN \/ out \in accepted
         \/ canReject /\ SampleLoop(out, peopleArray, accepted, canReject, attempts + 1)
    ELSE out = << "", "" >>

\* the pairs startNewGame can choose; <<"", "">> stands for the alert
PuzzlePairs ==
    LET peopleArray == PeopleArray(connections)
        draws       == Range(peopleArray) \X Range(peopleArray)
        accepted    == { d \in draws : Qualifies(d[1], d[2]) }
        sampled     == { out \in draws \cup { << "", "" >> } :
                           SampleLoop(out, peopleArray, accepted, draws # accepted, 0) }
    IN { IF d[1] = "" \/ d[2] = ""
         THEN IF Len(peopleArray) >= 2
              THEN << peopleArray[1], peopleArray[2] >>
              ELSE << "", "" >>
         ELSE d
         : d \in sampled }

\* mutant: the attempts of the previous session are carried over
NewGame_KeepsAttempts(startPerson, targetPerson) ==
    [ gameState EXCEPT !.startPerson = startPerson, !.targetPerson = targetPerson,
                       !.revealedPeople = Dedup(<< startPerson, targetPerson >>, {}),
                       !.revealedConnections = << >>,
                       !.gameStarted = TRUE, !.gameWon = FALSE, !.gameLost = FALSE,
                       !.timeElapsed = 0, !.score = 0 ]

\* the object startNewGame passes to setGameState
NewGame(startPerson, targetPerson) ==
    [ startPerson |-> startPerson, targetPerson |-> targetPerson,
      revealedPeople |-> Dedup(<< startPerson, targetPerson >>, {}),
      revealedConnections |-> << >>,
      gameStarted |-> TRUE, gameWon |-> FALSE, gameLost |-> FALSE,
      attempts |-> 0, maxAttempts |-> MaxAttempts,
      timeElapsed |-> 0, score |-> 0 ]

\* mutant: the attempt is counted but the cap never ends the game
CountAttempt_NeverLost(gs, prev, newAttempts) ==
    [ prev EXCEPT !.attempts = newAttempts ]

\* the updaters of the NotFound and NoLinkToRevealed branches
CountAttempt(gs, prev, newAttempts) ==
    IF newAttempts >= gs.maxAttempts
    THEN [ prev EXCEPT !.attempts = newAttempts, !.gameLost = TRUE ]
    ELSE [ prev EXCEPT !.attempts = newAttempts ]

\* mutant: a connection to every revealed person, linked or not
NewConnections_Unchecked(people, searchName) ==
    [ i \in DOMAIN people |-> [ source |-> searchName, target |-> people[i] ] ]

RECURSIVE NewConnections(_, _)
\* the forEach over the revealed people that collects newConnections
NewConnections(people, searchName) ==
    IF people = << >> THEN << >>
    ELSE LET rest == NewConnections(Tail(people), searchName)
         IN IF areDirectlyConnected(searchName, Head(people))
            THEN << [ source |-> searchName, target |-> Head(people) ] >> \o rest
            ELSE rest

\* the score computed on a win
NewScore(gs, newAttempts) ==
    LET timeBonus     == Max(0, 300 - (gs.timeElapsed \div 1000))
        attemptsBonus == Max(0, (gs.maxAttempts - newAttempts) * 50)
    IN 1000 + timeBonus + attemptsBonus

\* mutant: an accepted guess that uses the last attempt does not end the game
AcceptGuess_NoLoss(gs, prev, searchName, newAttempts) ==
    LET updatedConnections == gs.revealedConnections
                              \o NewConnections(gs.revealedPeople, searchName)
        revealedState      == [ prev EXCEPT
                                  !.revealedPeople = Append(gs.revealedPeople, searchName),
                                  !.revealedConnections = updatedConnections,
                                  !.attempts = newAttempts ]
    IN IF isGraphConnected(updatedConnections, gs.startPerson, gs.targetPerson)
       THEN [ revealedState EXCEPT !.gameWon = TRUE,
                                   !.score = NewScore(gs, newAttempts) ]
       ELSE revealedState

\* mutant: the cap is tested before the win
AcceptGuess_LossFirst(gs, prev, searchName, newAttempts) ==
    LET updatedConnections == gs.revealedConnections
                              \o NewConnections(gs.revealedPeople, searchName)
        revealedState      == [ prev EXCEPT
                                  !.revealedPeople = Append(gs.revealedPeople, searchName),
                                  !.revealedConnections = updatedConnections,
                                  !.attempts = newAttempts ]
    IN IF newAttempts >= gs.maxAttempts
       THEN [ revealedState EXCEPT !.gameLost = TRUE ]
       ELSE IF isGraphConnected(updatedConnections, gs.startPerson, gs.targetPerson)
       THEN [ revealedState EXCEPT !.gameWon = TRUE,
                                   !.score = NewScore(gs, newAttempts) ]
       ELSE revealedState

\* the accepting branch: the three updaters applied in order to prev
AcceptGuess(gs, prev, searchName, newAttempts) ==
    LET newPeople          == Append(gs.revealedPeople, searchName)
        updatedConnections == gs.revealedConnections
                              \o NewConnections(gs.revealedPeople, searchName)
        revealedState      == [ prev EXCEPT !.revealedPeople = newPeople,
                                            !.revealedConnections = updatedConnections,
                                            !.attempts = newAttempts ]
        gameWon            == isGraphConnected(updatedConnections,
                                               gs.startPerson, gs.targetPerson)
    IN IF gameWon
       THEN [ revealedState EXCEPT !.gameWon = TRUE,
                                   !.score = NewScore(gs, newAttempts) ]
       ELSE IF newAttempts >= gs.maxAttempts
       THEN [ revealedState EXCEPT !.gameLost = TRUE ]
       ELSE revealedState

\* handleSearchWithName run with the closure gs while the state is prev:
\* the state it leaves and what it reports
handleSearchWithName(gs, prev, nameToSearch) ==
    LET searchName  == Trim(nameToSearch)
        newAttempts == gs.attempts + 1
    IN IF searchName = "" \/ gs.gameWon \/ gs.gameLost
       THEN [ state |-> prev, report |-> "Ignored" ]
       ELSE IF searchName \notin AllPeople(connections)
       THEN [ state |-> CountAttempt(gs, prev, newAttempts), report |-> "NotFound" ]
       ELSE IF searchName \in Revealed(gs)
       THEN [ state |-> prev, report |-> "AlreadyRevealed" ]
       ELSE IF ~ \E revealedPerson \in Revealed(gs) :
                     areDirectlyConnected(searchName, revealedPerson)
       THEN [ state |-> CountAttempt(gs, prev, newAttempts),
              report |-> "NoLinkToRevealed" ]
       ELSE [ state |-> AcceptGuess(gs, prev, searchName, newAttempts),
              report |-> "Accepted" ]

\* gameStarted && !gameWon && !gameLost: the condition under which the search
\* bar (input, suggestions, Adicionar) is rendered and the timer runs
InProgress(gs) == gs.gameStarted /\ ~gs.gameWon /\ ~gs.gameLost

\* searchError: null
NoError == "null"

\* the text handleSearchWithName passes to setSearchError for what it reports
\* (lines 549, 570, 586); setSearchError(null) when the guess is accepted
ErrorMessage(report) ==
    CASE report = "NotFound" -> "Pessoa nao encontrada no banco de dados"
      [] report = "AlreadyRevealed" -> "Esta pessoa ja foi revelada"
      [] report = "NoLinkToRevealed" ->
            "Esta pessoa nao tem conexao com nenhuma das pessoas ja reveladas"
      [] OTHER -> NoError

\* mutant: the effect on searchQuery leaves the error alone
Rendered_KeepsError(oldQuery, newQuery, error) == error

\* the effect with dependency [searchQuery] (lines 229-233), run by the
\* render that follows a handler: when the text has changed from oldQuery to
\* newQuery, an error that is set is cleared
Rendered(oldQuery, newQuery, error) ==
    IF oldQuery # newQuery THEN NoError ELSE error

\* the search field after handleSearchWithName has run on the text shown
\* and reported report, the following render included: its first return
\* leaves the field alone, every other path ends with setSearchQuery('')
SearchDone(shown, report) ==
    IF report = "Ignored"
    THEN /\ searchQuery' = shown
         /\ searchError' = Rendered(searchQuery, shown, searchError)
    ELSE /\ searchQuery' = ""
         /\ searchError' = Rendered(shown, "", ErrorMessage(report))

\* every waiting deferred call has seen one more event go by
Aged(p) == [ i \in DOMAIN p |-> [ p[i] EXCEPT !.age = @ + 1 ] ]

\* events may still be handled before the oldest deferred call runs
GapOpen == \A i \in DOMAIN pending : pending[i].age < MaxGap

----------------------------------------------------------------------------
(* Actions *)

Init ==
    /\ loading = TRUE
    /\ connections = << >>
    /\ gameState = InitialGameState
    /\ pending = << >>
    /\ result = "None"
    /\ fnCall = NoCall
    /\ searchQuery = ""
    /\ searchError = NoError
    /\ hint = ""
    /\ db = NoTable
    /\ graphConnections = << >>
    /\ selectedPerson = "null"
    /\ cy = NoInstance

\* fetchData resolves with the accepted connections
FetchData ==
    /\ loading
    /\ \E conns \in EdgeLists :
         /\ connections' = conns
         /\ loading' = FALSE
    /\ UNCHANGED << gameState, pending, result, fnCall, pageState >>
    /\ UNCHANGED dbState

StartNewGame ==
    /\ ~(loading \/ Len(connections) = 0)
    /\ GapOpen
    /\ \E pair \in PuzzlePairs :
         IF pair = << "", "" >>
         THEN /\ result' = "InsufficientData"
              /\ UNCHANGED << gameState, pageState >>
         ELSE /\ gameState' = NewGame(pair[1], pair[2])
              /\ result' = "Started"
              /\ searchQuery' = ""
              /\ hint' = ""
              /\ searchError' = NoError
    /\ pending' = Aged(pending)
    /\ UNCHANGED << loading, connections, fnCall >>
    /\ UNCHANGED dbState

\* handleSearch: the text typed into the search field, then the Adicionar
\* button or Enter
HandleSearch(typed) ==
    /\ ~loading
    /\ InProgress(gameState)
    /\ GapOpen
    /\ LET out == handleSearchWithName(gameState, gameState, typed)
       IN /\ gameState' = out.state
          /\ result' = out.report
          /\ SearchDone(typed, out.report)
    /\ pending' = Aged(pending)
    /\ UNCHANGED << loading, connections, fnCall, hint >>
    /\ UNCHANGED dbState

\* selectSuggestion: schedules handleSearchWithName(suggestion) with setTimeout
SelectSuggestion(suggestion) ==
    /\ ~loading
    /\ InProgress(gameState)
    /\ GapOpen
    /\ Len(pending) < MaxPending
    /\ suggestion \in AllPeople(connections) \ Revealed(gameState)
    /\ pending' = Append(Aged(pending),
                         [ name |-> suggestion, closure |-> gameState, age |-> 0 ])
    /\ searchQuery' = suggestion
    /\ searchError' = Rendered(searchQuery, suggestion, searchError)
    /\ UNCHANGED << loading, connections, gameState, result, fnCall, hint >>
    /\ UNCHANGED dbState

\* the timeout fires: the deferred call runs with the closure it was created in
DeferredSearch ==
    /\ pending # << >>
    /\ LET call == Head(pending)
           out  == handleSearchWithName(call.closure, gameState, call.name)
       IN /\ gameState' = out.state
          /\ result' = out.report
          /\ SearchDone(searchQuery, out.report)
    /\ pending' = Tail(pending)
    /\ UNCHANGED << loading, connections, fnCall, hint >>
    /\ UNCHANGED dbState

\* the interval of the timer effect
Tick ==
    /\ InProgress(gameState)
    /\ GapOpen
    /\ \E t \in TimeValues :
         /\ t > gameState.timeElapsed
         /\ gameState' = [ gameState EXCEPT !.timeElapsed = t ]
    /\ pending' = Aged(pending)
    /\ UNCHANGED << loading, connections, result, fnCall, pageState >>
    /\ UNCHANGED dbState

Next ==
    \/ FetchData
    \/ StartNewGame
    \/ \E typed \in RawInputs : HandleSearch(typed)
    \/ \E suggestion \in AllPeople(connections) : SelectSuggestion(suggestion)
    \/ DeferredSearch
    \/ Tick

Spec == Init /\ [][Next]_vars

----------------------------------------------------------------------------
(* The handlers on their own.  The page renders the search bar only while a *)
(* game is in progress and disables the first start button while there is   *)
(* no connection; here startNewGame and handleSearchWithName are applied to *)
(* any state the session can be in once fetchData has resolved, with no     *)
(* other condition than those of their own code.                            *)

HandlerInit ==
    /\ loading = FALSE
    /\ connections \in EdgeLists
    /\ gameState = InitialGameState
    /\ pending = << >>
    /\ result = "None"
    /\ fnCall = NoCall
    /\ searchQuery = ""
    /\ searchError = NoError
    /\ hint = ""
    /\ db = NoTable
    /\ graphConnections = << >>
    /\ selectedPerson = "null"
    /\ cy = NoInstance

\* startNewGame, its first return included (line 466)
StartNewGameCall ==
    \/ StartNewGame
    \/ /\ loading \/ Len(connections) = 0
       /\ result' = "Ignored"
       /\ UNCHANGED << loading, connections, gameState, pending, fnCall, pageState,
                       dbState >>

\* handleSearch with the text nameToSearch, whatever the page shows
HandleSearchCall(nameToSearch) ==
    /\ LET out == handleSearchWithName(gameState, gameState, nameToSearch)
       IN /\ gameState' = out.state
          /\ result' = out.report
          /\ SearchDone(nameToSearch, out.report)
    /\ UNCHANGED << loading, connections, pending, fnCall, hint >>
    /\ UNCHANGED dbState

HandlerNext ==
    \/ StartNewGameCall
    \/ \E nameToSearch \in RawInputs : HandleSearchCall(nameToSearch)
    \/ Tick

HandlerSpec == HandlerInit /\ [][HandlerNext]_vars

----------------------------------------------------------------------------
(* startNewGame as a function of the outcomes of Math.random: the sampling  *)
(* loop run on a given sequence of draws, one draw being the two indices    *)
(* Math.floor(Math.random() * peopleArray.length) of an iteration (counted  *)
(* from 1 here).                                                            *)

\* the sequences of draws a run of the loop may consume, for n people
DrawSeqs(n) == [ 1..SampleBudget -> (1..n) \X (1..n) ]

RECURSIVE SampleWith(_, _, _)
\* the while loop on the draws: startPerson, targetPerson and attempts as
\* the loop leaves them
SampleWith(draws, peopleArray, attempts) ==
    IF attempts < SampleBudget /\ Len(peopleArray) >= 2
    THEN LET randomStart  == peopleArray[draws[attempts + 1][1]]
             randomTarget == peopleArray[draws[attempts + 1][2]]
         IN IF Qualifies(randomStart, randomTarget)
            THEN [ startPerson |-> randomStart, targetPerson |-> randomTarget,
                   attempts |-> attempts ]
            ELSE SampleWith(draws, peopleArray, attempts + 1)
    ELSE [ startPerson |-> "", targetPerson |-> "", attempts |-> attempts ]

\* mutant: no fallback when the loop ends without a pair
ChoosePair_NoFallback(loop, peopleArray) ==
    << loop.startPerson, loop.targetPerson >>

\* the pair after the fallback; <<"", "">> stands for the alert
ChoosePair(loop, peopleArray) ==
    IF loop.startPerson = "" \/ loop.targetPerson = ""
    THEN IF Len(peopleArray) >= 2
         THEN << peopleArray[1], peopleArray[2] >>
         ELSE << "", "" >>
    ELSE << loop.startPerson, loop.targetPerson >>

\* the outcomes Math.random is going to give, fixed before startNewGame runs
DrawRandom ==
    /\ ~loading
    /\ fnCall = NoCall
    /\ \E draws \in DrawSeqs(Len(PeopleArray(connections))) :
         fnCall' = [ fn |-> "Math.random", draws |-> draws ]
    /\ UNCHANGED << loading, connections, gameState, pending, result, pageState >>
    /\ UNCHANGED dbState

\* startNewGame consuming the draws
StartNewGameDrawn ==
    /\ fnCall.fn = "Math.random"
    /\ ~(loading \/ Len(connections) = 0)
    /\ LET peopleArray == PeopleArray(connections)
           loop        == SampleWith(fnCall.draws, peopleArray, 0)
           pair        == ChoosePair(loop, peopleArray)
       IN /\ IF pair = << "", "" >>
             THEN /\ result' = "InsufficientData"
                  /\ UNCHANGED << gameState, pageState >>
             ELSE /\ gameState' = NewGame(pair[1], pair[2])
                  /\ result' = "Started"
                  /\ searchQuery' = ""
                  /\ hint' = ""
                  /\ searchError' = NoError
          /\ fnCall' = [ fn |-> "startNewGame", draws |-> fnCall.draws, loop |-> loop ]
    /\ UNCHANGED << loading, connections, pending >>
    /\ UNCHANGED dbState

SamplingNext == FetchData \/ DrawRandom \/ StartNewGameDrawn

SamplingSpec == Init /\ [][SamplingNext]_vars

----------------------------------------------------------------------------
(* findShortestPath and isGraphConnected as functions of an edge list and   *)
(* two names.                                                               *)

\* rows an edge list may be made of: a triangle, a tail, a row stored in the
\* other orientation and a row joining a person to themself
EdgePool ==
    { <<"A", "B">>, <<"B", "C">>, <<"A", "C">>, <<"C", "D">>, <<"B", "A">>, <<"C", "C">> }

\* the edge lists of at most MaxEdges rows
GraphLists ==
    UNION { [ 1..n -> { Conn(p) : p \in EdgePool } ] : n \in 0..MaxEdges }

\* the names the functions are called with: people and a name in no edge
GraphNames == { "A", "B", "C", "D", "Z" }

\* an edge list in the shape of revealedConnections
AsRevealed(conns) ==
    [ i \in DOMAIN conns |-> [ source |-> conns[i].name1, target |-> conns[i].name2 ] ]

\* each list is examined by one call: the functions read the list only
GraphInit ==
    /\ loading = FALSE
    /\ connections \in GraphLists
    /\ gameState = InitialGameState
    /\ pending = << >>
    /\ result = "None"
    /\ fnCall = NoCall
    /\ searchQuery = ""
    /\ searchError = NoError
    /\ hint = ""
    /\ db = NoTable
    /\ graphConnections = << >>
    /\ selectedPerson = "null"
    /\ cy = NoInstance

FindShortestPathCall(start, target) ==
    /\ fnCall = NoCall
    /\ fnCall' = [ fn |-> "findShortestPath", start |-> start, target |-> target,
                   path |-> findShortestPath(start, target) ]
    /\ UNCHANGED << loading, connections, gameState, pending, result, pageState >>
    /\ UNCHANGED dbState

IsGraphConnectedCall(startPerson, targetPerson) ==
    /\ fnCall = NoCall
    /\ fnCall' = [ fn |-> "isGraphConnected",
                   startPerson |-> startPerson, targetPerson |-> targetPerson,
                   connected |-> isGraphConnected(AsRevealed(connections),
                                                  startPerson, targetPerson) ]
    /\ UNCHANGED << loading, connections, gameState, pending, result, pageState >>
    /\ UNCHANGED dbState

AreDirectlyConnectedCall(person1, person2) ==
    /\ fnCall = NoCall
    /\ fnCall' = [ fn |-> "areDirectlyConnected",
                   person1 |-> person1, person2 |-> person2,
                   connected |-> areDirectlyConnected(person1, person2) ]
    /\ UNCHANGED << loading, connections, gameState, pending, result, pageState >>
    /\ UNCHANGED dbState

GetConnectionsCall(personName) ==
    /\ fnCall = NoCall
    /\ fnCall' = [ fn |-> "getConnections", personName |-> personName,
                   names |-> getConnections(personName) ]
    /\ UNCHANGED << loading, connections, gameState, pending, result, pageState >>
    /\ UNCHANGED dbState

GraphNext ==
    \/ \E start, target \in GraphNames : FindShortestPathCall(start, target)
    \/ \E startPerson, targetPerson \in GraphNames :
           IsGraphConnectedCall(startPerson, targetPerson)
    \/ \E person1, person2 \in GraphNames : AreDirectlyConnectedCall(person1, person2)
    \/ \E personName \in GraphNames : GetConnectionsCall(personName)

GraphSpec == GraphInit /\ [][GraphNext]_vars

----------------------------------------------------------------------------
(* Games played over the edge lists of GraphLists: the handlers applied one *)
(* after the other, each guess with the state of the current render.        *)

PlayInit ==
    /\ loading = FALSE
    /\ connections \in GraphLists
    /\ gameState = InitialGameState
    /\ pending = << >>
    /\ result = "None"
    /\ fnCall = NoCall
    /\ searchQuery = ""
    /\ searchError = NoError
    /\ hint = ""
    /\ db = NoTable
    /\ graphConnections = << >>
    /\ selectedPerson = "null"
    /\ cy = NoInstance

PlayNext == HandlerNext

PlaySpec == PlayInit /\ [][PlayNext]_vars

----------------------------------------------------------------------------
(* The same games over an edge list that receives a copy of one of its rows *)
(* (the table may hold several accepted rows for the same two people).      *)

\* conns with row c put in at position j + 1
InsertRow(conns, j, c) ==
    SubSeq(conns, 1, j) \o << c >> \o SubSeq(conns, j + 1, Len(conns))

\* what is compared of a guess: the session it leaves (the revealed
\* connections as a set) and what it reports
Outcome(out) ==
    [ revealedPeople |-> out.state.revealedPeople,
      revealedConnections |->
          { { out.state.revealedConnections[i].source,
              out.state.revealedConnections[i].target } :
                i \in DOMAIN out.state.revealedConnections },
      attempts |-> out.state.attempts,
      gameStarted |-> out.state.gameStarted,
      gameWon |-> out.state.gameWon,
      gameLost |-> out.state.gameLost,
      report |-> out.report ]

\* what the functions give over the list as it stands: who is directly
\* connected, how long each shortest path is, what each guess would do
Answers ==
    [ direct |-> { p \in GraphNames \X GraphNames : areDirectlyConnected(p[1], p[2]) },
      lengths |-> [ p \in GraphNames \X GraphNames |-> Len(findShortestPath(p[1], p[2])) ],
      guesses |-> [ nameToSearch \in RawInputs |->
                      Outcome(handleSearchWithName(gameState, gameState, nameToSearch)) ] ]

\* a copy of row i, in the same or in the other orientation, joins the list;
\* the answers over the list before it are kept for comparison
DuplicateRow ==
    /\ ~loading
    /\ fnCall = NoCall
    /\ Len(connections) < MaxEdges
    /\ \E i \in DOMAIN connections, j \in 0..Len(connections), swapped \in BOOLEAN :
         connections' = InsertRow(connections, j,
                           IF swapped
                           THEN [ name1 |-> connections[i].name2,
                                  name2 |-> connections[i].name1 ]
                           ELSE connections[i])
    /\ fnCall' = [ fn |-> "duplicate", session |-> gameState, before |-> Answers ]
    /\ UNCHANGED << loading, gameState, pending, result, pageState >>
    /\ UNCHANGED dbState

\* games are played over the list as loaded; the copy comes at any moment of
\* a game and the answers are compared there
DuplicateNext == (fnCall = NoCall /\ PlayNext) \/ DuplicateRow

DuplicateSpec == PlayInit /\ [][DuplicateNext]_vars

----------------------------------------------------------------------------
(* The whole page: the game with the typing into the search field, the Dica *)
(* button and the timeouts that take the hint away.                         *)

RECURSIVE HintLoop_FirstOnPath(_, _)
\* mutant: the first person with a short enough path to the target is
\* proposed, revealed or not, linked to a revealed person or not
HintLoop_FirstOnPath(gs, people) ==
    IF people = << >>
    THEN "Nao ha dicas disponiveis no momento"
    ELSE LET pathToTarget == findShortestPath(Head(people), gs.targetPerson)
         IN IF /\ pathToTarget # NoPath
               /\ Len(pathToTarget) <= gs.maxAttempts - gs.attempts + 2
            THEN "Tente: " \o Head(people)
            ELSE HintLoop_FirstOnPath(gs, Tail(people))

RECURSIVE HintLoop(_, _)
\* the for loop of getHint over the people still to visit (lines 701-718)
HintLoop(gs, people) ==
    IF people = << >>
    THEN "Nao ha dicas disponiveis no momento"
    ELSE LET person             == Head(people)
             connectsToRevealed == \E revealed \in Revealed(gs) :
                                      areDirectlyConnected(person, revealed)
             pathToTarget       == findShortestPath(person, gs.targetPerson)
         IN IF /\ person \notin Revealed(gs)
               /\ connectsToRevealed
               /\ pathToTarget # NoPath
               /\ Len(pathToTarget) <= gs.maxAttempts - gs.attempts + 2
            THEN "Tente: " \o person
            ELSE HintLoop(gs, Tail(people))

\* handleSearchInputChange: the player edits the text of the search field
HandleSearchInputChange(value) ==
    /\ ~loading
    /\ InProgress(gameState)
    /\ GapOpen
    /\ value # searchQuery
    /\ searchQuery' = value
    /\ searchError' = Rendered(searchQuery, value, searchError)
    /\ pending' = Aged(pending)
    /\ UNCHANGED << loading, connections, gameState, result, fnCall, hint >>
    /\ UNCHANGED dbState

\* mutant: asking for a hint costs an attempt
GetHint_CountsAttempt ==
    /\ ~loading
    /\ InProgress(gameState)
    /\ GapOpen
    /\ hint' = HintLoop(gameState, PeopleArray(connections))
    /\ gameState' = [ gameState EXCEPT !.attempts = @ + 1 ]
    /\ pending' = Aged(pending)
    /\ UNCHANGED << loading, connections, result, fnCall,
                    searchQuery, searchError >>
    /\ UNCHANGED dbState

\* getHint: the Dica button, shown once a game has started; the function
\* returns at once unless the game is in progress (line 691)
GetHint ==
    /\ ~loading
    /\ gameState.gameStarted
    /\ GapOpen
    /\ hint' = IF InProgress(gameState)
               THEN HintLoop(gameState, PeopleArray(connections))
               ELSE hint
    /\ pending' = Aged(pending)
    /\ UNCHANGED << loading, connections, gameState, result, fnCall,
                    searchQuery, searchError >>
    /\ UNCHANGED dbState

\* a timeout scheduled by getHint fires: setHint('') (lines 713, 720)
HintTimeout ==
    /\ hint # ""
    /\ hint' = ""
    /\ UNCHANGED << loading, connections, gameState, pending, result, fnCall,
                    searchQuery, searchError >>
    /\ UNCHANGED dbState

PageNext ==
    \/ Next
    \/ \E value \in RawInputs \cup {""} : HandleSearchInputChange(value)
    \/ GetHint
    \/ HintTimeout

PageSpec == Init /\ [][PageNext]_vars

----------------------------------------------------------------------------
(* The other reveal game (unnamed/part_001): its getConnections,            *)
(* areDirectlyConnected and isGraphConnected are those of ConnectGame.tsx   *)
(* line for line; its handleSearch is applied here to the sessions the game *)
(* of ConnectGame.tsx goes through.                                         *)

\* handleSearch of part_001 on the text searchText, run with the closure gs
\* while the state is prev: a person of the network is always revealed
OtherHandleSearch(gs, prev, searchText) ==
    LET searchName         == Trim(searchText)
        newAttempts        == gs.attempts + 1
        newPeople          == IF searchName \in Revealed(gs)
                              THEN gs.revealedPeople
                              ELSE Append(gs.revealedPeople, searchName)
        updatedConnections == gs.revealedConnections
                              \o NewConnections(gs.revealedPeople, searchName)
        revealedState      == [ prev EXCEPT !.revealedPeople = newPeople,
                                            !.revealedConnections = updatedConnections,
                                            !.attempts = newAttempts ]
        gameWon            == isGraphConnected(updatedConnections,
                                               gs.startPerson, gs.targetPerson)
    IN IF searchName = "" \/ gs.gameWon \/ gs.gameLost
       THEN prev
       ELSE IF searchName \notin AllPeople(connections)
       THEN CountAttempt(gs, prev, newAttempts)
       ELSE IF gameWon
       THEN [ revealedState EXCEPT !.gameWon = TRUE,
                                   !.score = NewScore(gs, newAttempts) ]
       ELSE IF newAttempts >= gs.maxAttempts
       THEN [ revealedState EXCEPT !.gameLost = TRUE ]
       ELSE revealedState

\* the session of the game is handed to handleSearch of part_001
OtherHandleSearchCall(searchText) ==
    /\ fnCall = NoCall
    /\ InProgress(gameState)
    /\ fnCall' = [ fn |-> "handleSearch", searchQuery |-> searchText,
                   from |-> gameState,
                   state |-> OtherHandleSearch(gameState, gameState, searchText) ]
    /\ UNCHANGED << loading, connections, gameState, pending, result, pageState,
                    dbState >>

EngineNext ==
    \/ fnCall = NoCall /\ PlayNext
    \/ \E searchText \in RawInputs : OtherHandleSearchCall(searchText)

EngineSpec == PlayInit /\ [][EngineNext]_vars

----------------------------------------------------------------------------
(* Moderation: the connections table under its row-level-security policies, *)
(* the status migration, the form of AddConnection, the approval of the     *)
(* Admin page and the two fetches of the accepted rows.                     *)

\* rows the table may come to hold
MaxInserts == 2

\* public.users: type 'user' by default, 'admin' set by hand
UserType == [ ana |-> "user", root |-> "admin" ]
Users == DOMAIN UserType

\* the people a row may join
FormPairs == { << "A", "B" >>, << " C", "B " >> }

Statuses == { "pending", "accepted", "rejected" }

\* public.is_user_admin() for auth.uid() = user
is_user_admin(user) == UserType[user] = "admin"

\* the status column after INSERT: the value given, DEFAULT 'pending' when
\* none is given, no value at all while the table has no such column
StoredStatus(given) ==
    IF ~db.statusColumn THEN "NULL"
    ELSE IF given = "DEFAULT" THEN "pending"
    ELSE given

\* INSERT INTO connections by an authenticated user; the INSERT policy is
\* WITH CHECK (true).  via, era and setBy are not columns: they record where
\* the row came from, whether the status column existed, and who gave the
\* row the status it has
Inserted(user, name1, name2, given, via) ==
    [ db EXCEPT !.rows = Append(@,
        [ id |-> Len(db.rows) + 1,
          name1 |-> name1,
          name2 |-> name2,
          status |-> StoredStatus(given),
          created_by |-> user,
          via |-> via,
          era |-> IF db.statusColumn THEN "after" ELSE "before",
          setBy |-> IF given = "DEFAULT" THEN "default" ELSE user ]) ]

\* what may be typed into an Instagram field of the form
Instagrams == { "", "@ig" }

\* the insert, if any, that the database answers with an error
InsertErrors == { "none", "names", "connections" }

\* validateAndEnsureNameExists on the names table as it stands: the table
\* after it, and the toast of handleSubmit's catch when it throws
validateAndEnsureNameExists(names, name, instagram, failing) ==
    IF Trim(name) = "" \/ Trim(name) \in names
    THEN [ names |-> names, thrown |-> "none" ]
    ELSE IF instagram = ""
    THEN [ names |-> names, thrown |-> "Instagram obrigatorio" ]
    ELSE IF failing = "names"
    THEN [ names |-> names, thrown |-> "Ocorreu um erro inesperado" ]
    ELSE [ names |-> names \cup { Trim(name) }, thrown |-> "none" ]

\* handleSubmit of AddConnection: the two people are looked up in names and
\* inserted when new, then the connection is inserted with the two names
\* trimmed and status 'pending'; each await is a request of its own
HandleSubmit(user, person1Name, person1Instagram, person2Name, person2Instagram, failing) ==
    /\ db.statusColumn
    /\ Len(db.rows) < MaxInserts
    /\ LET first  == validateAndEnsureNameExists(db.names, person1Name,
                                                 person1Instagram, failing)
           second == validateAndEnsureNameExists(first.names, person2Name,
                                                 person2Instagram, failing)
       IN IF first.thrown # "none"
          THEN /\ db' = [ db EXCEPT !.names = first.names ]
               /\ result' = first.thrown
          ELSE IF second.thrown # "none"
          THEN /\ db' = [ db EXCEPT !.names = second.names ]
               /\ result' = second.thrown
          ELSE IF failing = "connections"
          THEN /\ db' = [ db EXCEPT !.names = second.names ]
               /\ result' = "Erro ao criar conexao"
          ELSE /\ db' = [ Inserted(user, Trim(person1Name), Trim(person2Name),
                                   "pending", "AddConnection")
                            EXCEPT !.names = second.names ]
               /\ result' = "Conexao criada"
    /\ UNCHANGED << loading, connections, gameState, pending, fnCall,
                    pageState, graphConnections >>
    /\ UNCHANGED viewState

\* handleSubmit with what the form holds and what the database answers
Submit ==
    \E user \in Users, pair \in FormPairs, person1Instagram \in Instagrams,
       person2Instagram \in Instagrams, failing \in InsertErrors :
          HandleSubmit(user, pair[1], person1Instagram, pair[2], person2Instagram,
                       failing)

\* an INSERT sent to the table with the client's key, not through the form:
\* the policy lets any authenticated user insert any row
InsertConnection(user, name1, name2, given) ==
    /\ Len(db.rows) < MaxInserts
    /\ db.statusColumn \/ given = "DEFAULT"
    /\ db' = Inserted(user, name1, name2, given, "api")
    /\ UNCHANGED << loading, connections, gameState, pending, result, fnCall,
                    pageState, graphConnections >>
    /\ UNCHANGED viewState

\* UPDATE connections SET status = newStatus WHERE id = connectionId, under
\* the policy "Admins can update connections": USING (is_user_admin()), so
\* for anyone else no row qualifies and nothing is updated
Updated(user, connectionId, newStatus) ==
    [ db EXCEPT !.rows =
        [ i \in DOMAIN @ |->
            IF @[i].id = connectionId /\ is_user_admin(user)
            THEN [ @[i] EXCEPT !.status = newStatus, !.setBy = user ]
            ELSE @[i] ] ]

\* handleApproval of the Admin page
HandleApproval(user, connectionId, approved) ==
    /\ db.statusColumn
    /\ connectionId \in 1..Len(db.rows)
    /\ db' = Updated(user, connectionId, IF approved THEN "accepted" ELSE "rejected")
    /\ db' # db
    /\ UNCHANGED << loading, connections, gameState, pending, result, fnCall,
                    pageState, graphConnections >>
    /\ UNCHANGED viewState

\* ALTER TABLE ... ADD COLUMN status TEXT DEFAULT 'pending': the default is
\* the value of the new column in every row the table already holds
AddStatusColumn(rows) ==
    [ i \in DOMAIN rows |-> [ rows[i] EXCEPT !.status = "pending", !.setBy = "default" ] ]

\* UPDATE ... SET status = 'accepted' WHERE status IS NULL
AcceptNullStatus(rows) ==
    [ i \in DOMAIN rows |->
        IF rows[i].status = "NULL"
        THEN [ rows[i] EXCEPT !.status = "accepted", !.setBy = "migration" ]
        ELSE rows[i] ]

\* the migration that adds the status column: its two statements
StatusMigration ==
    /\ ~db.statusColumn
    /\ db' = [ db EXCEPT !.rows = AcceptNullStatus(AddStatusColumn(db.rows)),
                         !.statusColumn = TRUE ]
    /\ UNCHANGED << loading, connections, gameState, pending, result, fnCall,
                    pageState, graphConnections >>
    /\ UNCHANGED viewState

RECURSIVE WithStatus(_, _)
\* .eq('status', wanted): the rows with that status, in table order
WithStatus(rows, wanted) ==
    IF rows = << >> THEN << >>
    ELSE IF Head(rows).status = wanted
         THEN << Head(rows) >> \o WithStatus(Tail(rows), wanted)
         ELSE WithStatus(Tail(rows), wanted)

\* mutant: the fetch does not filter on the status
Selected_Unfiltered(rows) ==
    [ i \in DOMAIN rows |->
        [ id |-> rows[i].id, name1 |-> rows[i].name1, name2 |-> rows[i].name2,
          status |-> rows[i].status ] ]

\* .select('id, name1, name2, status').eq('status', 'accepted')
Selected(rows) ==
    LET accepted == WithStatus(rows, "accepted")
    IN [ i \in DOMAIN accepted |->
           [ id |-> accepted[i].id, name1 |-> accepted[i].name1,
             name2 |-> accepted[i].name2, status |-> accepted[i].status ] ]

\* fetchData of NetworkGraph
GraphFetchData ==
    /\ db.statusColumn
    /\ graphConnections' = Selected(db.rows)
    /\ graphConnections' # graphConnections
    /\ UNCHANGED << loading, connections, gameState, pending, result, fnCall,
                    pageState, db >>
    /\ UNCHANGED viewState

\* fetchData of ConnectGame on the table as it stands; the game reads name1
\* and name2 of what it is given
GameFetchData ==
    /\ loading
    /\ db.statusColumn
    /\ connections' = [ i \in DOMAIN Selected(db.rows) |->
                          Conn(<< Selected(db.rows)[i].name1, Selected(db.rows)[i].name2 >>) ]
    /\ loading' = FALSE
    /\ UNCHANGED << gameState, pending, result, fnCall, pageState, db,
                    graphConnections >>
    /\ UNCHANGED viewState

ModerationNext ==
    \/ Submit
    \/ \E user \in Users, pair \in FormPairs, given \in Statuses \cup { "DEFAULT" } :
          InsertConnection(user, Trim(pair[1]), Trim(pair[2]), given)
    \/ \E user \in Users, connectionId \in 1..MaxInserts, approved \in BOOLEAN :
          HandleApproval(user, connectionId, approved)
    \/ StatusMigration
    \/ GraphFetchData
    \/ GameFetchData

ModerationSpec == Init /\ [][ModerationNext]_vars

----------------------------------------------------------------------------
(* The network graph (components/NetworkGraph.tsx): the Cytoscape instance  *)
(* built from the fetched connections, with no search text, and the taps on *)
(* its nodes and on its background.  The tap handlers are created by the    *)
(* effect that builds the instance, whose dependencies are connections,     *)
(* names, loading and searchQuery: they read the selectedPerson of the      *)
(* render in which the instance was built.                                  *)

\* no element carries a highlight class
NoHighlights == [ selected |-> {}, connected |-> {}, edges |-> {} ]

\* the ids of the nodes of the instance
Nodes == UNION { { graphConnections[i].name1, graphConnections[i].name2 } :
                   i \in DOMAIN graphConnections }

\* highlightConnections(nodeId, cy): the classes after it
highlightConnections(nodeId) ==
    LET connectedEdges == { i \in DOMAIN graphConnections :
                               \/ graphConnections[i].name1 = nodeId
                               \/ graphConnections[i].name2 = nodeId }
    IN [ selected |-> { nodeId },
         connected |-> UNION { { graphConnections[i].name1, graphConnections[i].name2 } :
                                 i \in connectedEdges } \ { nodeId },
         edges |-> connectedEdges ]

\* the connections fetchData may have delivered to the graph
TapInit ==
    /\ loading = TRUE
    /\ connections = << >>
    /\ gameState = InitialGameState
    /\ pending = << >>
    /\ result = "None"
    /\ fnCall = NoCall
    /\ searchQuery = ""
    /\ searchError = NoError
    /\ hint = ""
    /\ db = NoTable
    /\ \E conns \in GraphLists :
          graphConnections = [ i \in DOMAIN conns |->
                                 [ id |-> i, name1 |-> conns[i].name1,
                                   name2 |-> conns[i].name2, status |-> "accepted" ] ]
    /\ selectedPerson = "null"
    /\ cy = NoInstance

\* the effect "Initialize Cytoscape" after the fetch: it returns at once
\* while there is no connection (line 111)
InitializeCytoscape ==
    /\ ~cy.built
    /\ Len(graphConnections) # 0
    /\ cy' = [ built |-> TRUE, selectedPerson |-> selectedPerson,
               classes |-> NoHighlights, restore |-> "null" ]
    /\ UNCHANGED << loading, connections, gameState, pending, result, fnCall,
                    pageState, db, graphConnections, selectedPerson >>

\* each handler leaves in fnCall which event it handled, a tap with the node
\* and the selection on the page when it came

\* the handler of 'tap' on a node (lines 271-290); when selectedPerson
\* changes to a person, the effect "Restore highlights" (lines 320-327)
\* schedules highlightConnections for that person (the latest one is kept)
TapNode(nodeId) ==
    /\ cy.built
    /\ nodeId \in Nodes
    /\ IF cy.selectedPerson = nodeId
       THEN /\ selectedPerson' = "null"
            /\ cy' = [ cy EXCEPT !.classes = NoHighlights ]
       ELSE /\ selectedPerson' = nodeId
            /\ cy' = [ cy EXCEPT !.classes = highlightConnections(nodeId),
                                 !.restore = IF selectedPerson # nodeId
                                             THEN nodeId ELSE cy.restore ]
    /\ fnCall' = [ fn |-> "tap", nodeId |-> nodeId, selectedPerson |-> selectedPerson ]
    /\ UNCHANGED << loading, connections, gameState, pending, result,
                    pageState, db, graphConnections >>

\* the handler of 'tap' on the background (lines 293-300)
TapBackground ==
    /\ cy.built
    /\ selectedPerson' = "null"
    /\ cy' = [ cy EXCEPT !.classes = NoHighlights ]
    /\ fnCall' = [ fn |-> "tapBackground" ]
    /\ UNCHANGED << loading, connections, gameState, pending, result,
                    pageState, db, graphConnections >>

\* the timeout of the restoring effect fires (line 323)
RestoreHighlights ==
    /\ cy.built
    /\ cy.restore # "null"
    /\ cy' = [ cy EXCEPT !.classes = highlightConnections(cy.restore),
                         !.restore = "null" ]
    /\ fnCall' = [ fn |-> "setTimeout" ]
    /\ UNCHANGED << loading, connections, gameState, pending, result,
                    pageState, db, graphConnections, selectedPerson >>

TapNext ==
    \/ InitializeCytoscape
    \/ \E nodeId \in GraphNames : TapNode(nodeId)
    \/ TapBackground
    \/ RestoreHighlights

TapSpec == TapInit /\ [][TapNext]_vars

----------------------------------------------------------------------------
(* Vocabulary of the claims *)

\* the unordered pairs held in a list of revealed connections
Edges(conns) == { { conns[i].source, conns[i].target } : i \in DOMAIN conns }

RECURSIVE Component(_, _)
\* the people joined to a member of S by a chain of the pairs in E
Component(S, E) ==
    LET step == S \cup { y \in UNION E : \E x \in S : { x, y } \in E }
    IN IF step = S THEN S ELSE Component(step, E)

\* start and target are joined by a chain of revealed connections
ChainConnected(gs) ==
    gs.targetPerson \in Component({ gs.startPerson }, Edges(gs.revealedConnections))

\* the revealed people directly connected to name in the full graph
Linked(gs, name) == { p \in Revealed(gs) : areDirectlyConnected(name, p) }

\* a step in which handleSearchWithName runs on the (trimmed) name
GuessStep(name) ==
    \/ \E typed \in RawInputs : Trim(typed) = name /\ HandleSearch(typed)
    \/ pending # << >> /\ Head(pending).name = name /\ DeferredSearch

\* the names a guess can carry
GuessNames == { Trim(q) : q \in RawInputs } \ { "" }

\* guess(name) meets the conditions of an accepted guess in the current session
Acceptable(name) ==
    /\ InProgress(gameState)
    /\ name \in AllPeople(connections)
    /\ name \notin Revealed(gameState)
    /\ Linked(gameState, name) # {}

----------------------------------------------------------------------------
(* C1: an accepted guess, made while InProgress with a person of the graph  *)
(* who is not revealed and is directly connected to a revealed person,      *)
(* adds the name to revealedPeople, adds one edge (name, p) for every       *)
(* revealed person p directly connected to name, and adds 1 to attempts.    *)
C1_AcceptedGuess ==
    [][ \A name \in GuessNames :
          GuessStep(name) /\ Acceptable(name) =>
            /\ Revealed(gameState') = Revealed(gameState) \cup { name }
            /\ Edges(gameState'.revealedConnections) =
                 Edges(gameState.revealedConnections)
                 \cup { { name, p } : p \in Linked(gameState, name) }
            /\ Len(gameState'.revealedConnections) =
                 Len(gameState.revealedConnections) + Cardinality(Linked(gameState, name))
            /\ gameState'.attempts = gameState.attempts + 1 ]_vars

(* C2: after an accepted guess the status is Won if start and target are    *)
(* connected within the updated revealedConnections, else Lost if attempts  *)
(* equals maxAttempts, else still InProgress.                               *)
C2_EvaluationAfterAccept ==
    [][ \A name \in GuessNames :
          GuessStep(name) /\ Acceptable(name) =>
            IF ChainConnected(gameState')
            THEN gameState'.gameWon /\ ~gameState'.gameLost
            ELSE IF gameState'.attempts = gameState'.maxAttempts
            THEN gameState'.gameLost /\ ~gameState'.gameWon
            ELSE InProgress(gameState') ]_vars

(* C3: in every reachable state, Won only if start and target are joined by *)
(* a chain of edges of revealedConnections.                                 *)
C3_WonOnlyIfConnected == gameState.gameWon => ChainConnected(gameState)

(* C4: guessing a name that is already in revealedPeople changes nothing:   *)
(* attempts, revealedPeople, revealedConnections and status stay as they    *)
(* were.                                                                    *)
C4_AlreadyRevealedNoOp ==
    [][ \A name \in GuessNames :
          GuessStep(name) /\ InProgress(gameState) /\ name \in Revealed(gameState) =>
            gameState' = gameState ]_vars

(* C5: guessing a name that is not a person of the full graph while         *)
(* InProgress adds exactly 1 to attempts and leaves revealedPeople and      *)
(* revealedConnections unchanged; the status stays InProgress unless the    *)
(* new attempts value reaches maxAttempts, and then it becomes Lost.        *)
C5_NotFoundCountsAttempt ==
    [][ \A name \in GuessNames :
          /\ GuessStep(name)
          /\ InProgress(gameState)
          /\ name \notin AllPeople(connections)
          => /\ gameState'.attempts = gameState.attempts + 1
             /\ gameState'.revealedPeople = gameState.revealedPeople
             /\ gameState'.revealedConnections = gameState.revealedConnections
             /\ ~gameState'.gameWon
             /\ gameState'.gameLost <=> (gameState'.attempts = gameState'.maxAttempts)
             /\ gameState' = [ gameState EXCEPT !.attempts = gameState'.attempts,
                                                !.gameLost = gameState'.gameLost ] ]_vars

\* a NotFound guess has used the last attempt and lost the game
C5_Witness ==
    /\ result = "NotFound"
    /\ gameState.gameLost
    /\ gameState.attempts = gameState.maxAttempts
    /\ gameState.revealedPeople = << gameState.startPerson, gameState.targetPerson >>

(* C6: guessing a person of the full graph who is not revealed and has no   *)
(* direct connection to any revealed person adds 1 to attempts and leaves   *)
(* revealedPeople and revealedConnections unchanged.                        *)
C6_NoLinkCountsAttempt ==
    [][ \A name \in GuessNames :
          /\ GuessStep(name)
          /\ InProgress(gameState)
          /\ name \in AllPeople(connections)
          /\ name \notin Revealed(gameState)
          /\ Linked(gameState, name) = {}
          => /\ gameState'.attempts = gameState.attempts + 1
             /\ gameState'.revealedPeople = gameState.revealedPeople
             /\ gameState'.revealedConnections = gameState.revealedConnections ]_vars

(* C7: once the status is Won or Lost it stays so under guesses: a guess in *)
(* a terminal state changes no field of the session.                        *)
C7_TerminalGuessNoEffect ==
    [][ \A name \in GuessNames :
          GuessStep(name) /\ (gameState.gameWon \/ gameState.gameLost) =>
            gameState' = gameState ]_vars

(* C8: in every reachable state, Lost only if attempts = maxAttempts and    *)
(* the session is not Won.                                                  *)
C8_LostOnlyAtCap ==
    gameState.gameLost =>
        gameState.attempts = gameState.maxAttempts /\ ~gameState.gameWon

(* C9: in every reachable state attempts <= maxAttempts, and an InProgress  *)
(* session has attempts <= maxAttempts.                                     *)
C9_AttemptsWithinCap == gameState.attempts <= gameState.maxAttempts

\* a session that has used every attempt
C9_Witness ==
    /\ gameState.gameStarted
    /\ gameState.attempts = gameState.maxAttempts
    /\ gameState.maxAttempts > 0

(* C10: in every reachable state, every entry of revealedConnections is an  *)
(* edge of the full graph and both of its endpoints are in revealedPeople.  *)
C10_RevealedConnectionsSound ==
    \A i \in DOMAIN gameState.revealedConnections :
        LET c == gameState.revealedConnections[i]
        IN /\ areDirectlyConnected(c.source, c.target)
           /\ c.source \in Revealed(gameState)
           /\ c.target \in Revealed(gameState)

\* a guess has revealed two connections at once
C10_Witness ==
    /\ result = "Accepted"
    /\ Len(gameState.revealedConnections) >= 2

(* C11: in every reachable state where the game has been started,           *)
(* revealedPeople contains both startPerson and targetPerson of the current *)
(* session.                                                                 *)
C11_StartAndTargetRevealed ==
    gameState.gameStarted =>
        { gameState.startPerson, gameState.targetPerson } \subseteq Revealed(gameState)

(* C12: start can be invoked in any state of the session (NotStarted,       *)
(* InProgress, Won, Lost) and, when the graph has at least two distinct     *)
(* people, yields an InProgress session with revealedPeople = {start,       *)
(* target}, no revealed connection, attempts = 0 and score = 0, every field *)
(* being that of a new session (nothing carried over).                      *)
C12_StartYieldsFreshSession ==
    [][ StartNewGame /\ Cardinality(AllPeople(connections)) >= 2 =>
          /\ InProgress(gameState')
          /\ Revealed(gameState') =
               { gameState'.startPerson, gameState'.targetPerson }
          /\ gameState'.revealedConnections = << >>
          /\ gameState'.attempts = 0
          /\ gameState'.score = 0
          /\ gameState' = NewGame(gameState'.startPerson, gameState'.targetPerson)
          /\ result' = "Started" ]_vars

\* a session was started over one in which a guess had been made and a
\* suggestion selected: the new session shows nothing of it
C12_Witness ==
    /\ result = "Started"
    /\ gameState.attempts = 0
    /\ pending # << >>
    /\ Head(pending).closure.attempts > 0

RECURSIVE CanWin(_)
\* some sequence of guesses takes the session gs to Won (a guess that is not
\* accepted reveals nothing and only uses an attempt)
CanWin(gs) ==
    \/ gs.gameWon
    \/ /\ InProgress(gs)
       /\ \E name \in AllPeople(connections) \ Revealed(gs) :
            LET out == handleSearchWithName(gs, gs, name)
            IN out.report = "Accepted" /\ CanWin(out.state)

(* C14: whenever the graph has at least two distinct people, the pair chosen *)
(* by start, sampled or taken by the fallback, is playable: from the freshly *)
(* started session some sequence of guesses reaches Won.                     *)
C14_StartedPairPlayable ==
    result = "Started" /\ Cardinality(AllPeople(connections)) >= 2
        => CanWin(gameState)

\* the graph holds a pair the sampling loop would accept
QualifyingPairExists ==
    \E a, b \in AllPeople(connections) : Qualifies(a, b)

(* C15: whenever the graph holds at least one qualifying pair (distinct, not *)
(* directly connected, shortest path of 3 to 6 people), the pair start sets  *)
(* is never directly connected in the full graph, whatever the sampling      *)
(* draws within its budget.                                                  *)
C15_NeverDirectlyConnected ==
    result = "Started" /\ QualifyingPairExists
        => ~areDirectlyConnected(gameState.startPerson, gameState.targetPerson)

Neighbours(S) ==
    { y \in AllPeople(connections) : \E x \in S : areDirectlyConnected(x, y) }

RECURSIVE Hops(_, _, _)
\* the number of people on a shortest chain from the set S (reached with k
\* people) to b; 0 when b cannot be reached
Hops(S, b, k) ==
    IF b \in S THEN k
    ELSE LET step == S \cup Neighbours(S)
         IN IF step = S THEN 0 ELSE Hops(step, b, k + 1)

ShortestPeople(a, b) == Hops({ a }, b, 1)

\* the constraints on a sampled pair
MeetsConstraints(a, b) ==
    /\ a # b
    /\ ~areDirectlyConnected(a, b)
    /\ ShortestPeople(a, b) >= 3
    /\ ShortestPeople(a, b) <= 6

\* the pair of the i-th draw of the examined run of startNewGame
Drawn(i) ==
    << PeopleArray(connections)[fnCall.draws[i][1]],
       PeopleArray(connections)[fnCall.draws[i][2]] >>

\* the examined run left the loop with a pair (not the fallback)
AcceptedInLoop == fnCall.loop.startPerson # "" /\ fnCall.loop.targetPerson # ""

C17_GenerationTerminates ==
    fnCall.fn = "startNewGame" =>
        /\ fnCall.loop.attempts <= SampleBudget
        /\ AcceptedInLoop => fnCall.loop.attempts < SampleBudget
        /\ Cardinality(AllPeople(connections)) >= 2 =>
             /\ result = "Started"
             /\ gameState.startPerson # gameState.targetPerson
             /\ { gameState.startPerson, gameState.targetPerson }
                  \subseteq AllPeople(connections)
             /\ ~AcceptedInLoop =>
                  /\ gameState.startPerson = PeopleArray(connections)[1]
                  /\ gameState.targetPerson = PeopleArray(connections)[2]

\* every draw of the budget was rejected and the fallback gave the pair
C17_Witness ==
    /\ fnCall.fn = "startNewGame"
    /\ fnCall.loop.attempts = SampleBudget
    /\ ~AcceptedInLoop
    /\ result = "Started"
    /\ QualifyingPairExists

(* C19: findShortestPath(start, target) returns null exactly when target is *)
(* not reachable from start in the undirected graph; otherwise it returns a *)
(* sequence that begins with start, ends with target, has every consecutive *)
(* pair directly connected and has the least possible number of people (the *)
(* one-element sequence when start = target).                               *)
C19_ShortestPathCorrect ==
    fnCall.fn = "findShortestPath" =>
        LET path == fnCall.path
            n    == ShortestPeople(fnCall.start, fnCall.target)
        IN IF n = 0
           THEN path = NoPath
           ELSE /\ path # NoPath
                /\ Head(path) = fnCall.start
                /\ path[Len(path)] = fnCall.target
                /\ \A i \in 1..(Len(path) - 1) :
                     areDirectlyConnected(path[i], path[i + 1])
                /\ Len(path) = n
                /\ fnCall.start = fnCall.target => path = << fnCall.start >>

\* the two-person path was returned between two people who are also joined
\* through a third
C19_Witness ==
    /\ fnCall.fn = "findShortestPath"
    /\ Len(fnCall.path) = 2
    /\ \E m \in AllPeople(connections) \ { fnCall.start, fnCall.target } :
         /\ areDirectlyConnected(fnCall.start, m)
         /\ areDirectlyConnected(m, fnCall.target)

(* C20: for every edge list E, the empty list included, and all names a, b, *)
(* a = b included, findShortestPath over E returns null if and only if      *)
(* isGraphConnected(E, a, b) returns false.                                 *)
C20_PathIffConnected ==
    fnCall.fn = "isGraphConnected" =>
        (fnCall.connected <=>
            findShortestPath(fnCall.startPerson, fnCall.targetPerson) # NoPath)

\* the chains of n directly connected people from a to b
Chains(a, b, n) ==
    { p \in [ 1..n -> AllPeople(connections) ] :
        /\ p[1] = a
        /\ p[n] = b
        /\ \A i \in 1..(n - 1) : areDirectlyConnected(p[i], p[i + 1]) }

\* the shortest paths from start to target of the current session
ShortestPaths ==
    LET n == ShortestPeople(gameState.startPerson, gameState.targetPerson)
    IN IF n = 0 THEN {} ELSE Chains(gameState.startPerson, gameState.targetPerson, n)

\* the session is the fresh one in which the first i - 1 people between the
\* ends of path p have been guessed in order, and nothing else
GuessedAlong(p, i) ==
    /\ InProgress(gameState)
    /\ gameState.revealedPeople =
         << gameState.startPerson, gameState.targetPerson >> \o SubSeq(p, 2, i)
    /\ gameState.attempts = i - 1

WinningScore(gs) ==
    1000 + Max(0, 300 - (gs.timeElapsed \div 1000))
         + Max(0, (gs.maxAttempts - gs.attempts) * 50)

(* C22: on the transition to Won the score is set to                        *)
(* 1000 + max(0, 300 - floor(elapsedMs / 1000))                             *)
(*      + max(0, (maxAttempts - attemptsUsed) * 50),                        *)
(* attemptsUsed counting the winning guess; it is at least 1000 and at most *)
(* 1300 + (maxAttempts - 1) * 50.                                           *)
C22_ScoreOnWin ==
    [][ ~gameState.gameWon /\ gameState'.gameWon =>
          /\ gameState'.score = WinningScore(gameState')
          /\ gameState'.score >= 1000
          /\ gameState'.score <= 1300 + (gameState'.maxAttempts - 1) * 50 ]_vars

(* C23: for every edge list and every pair of names a, b,                   *)
(* areDirectlyConnected(a, b) = areDirectlyConnected(b, a), and b is in     *)
(* getConnections(a) if and only if a is in getConnections(b).              *)
C23_ConnectionsSymmetric ==
    /\ fnCall.fn = "areDirectlyConnected" =>
         fnCall.connected = areDirectlyConnected(fnCall.person2, fnCall.person1)
    /\ fnCall.fn = "getConnections" =>
         \A b \in GraphNames :
            b \in Range(fnCall.names) <=> fnCall.personName \in Range(getConnections(b))

\* two people were found connected through a row stored the other way round
C23_Witness ==
    /\ fnCall.fn = "areDirectlyConnected"
    /\ fnCall.connected
    /\ fnCall.person1 # fnCall.person2
    /\ \A i \in DOMAIN connections :
         ~(connections[i].name1 = fnCall.person1 /\ connections[i].name2 = fnCall.person2)

(* C24: duplicate edges are idempotent: adding to the edge list a copy of   *)
(* an existing edge, in either orientation, changes neither                 *)
(* areDirectlyConnected for any pair, nor the existence or the length of    *)
(* any shortest path, nor the session (revealedPeople, the set of           *)
(* revealedConnections, attempts, status) a guess leads to from any session *)
(* reached by guesses, hence the session reached by any sequence of them.   *)
C24_DuplicateEdgesIdempotent ==
    fnCall.fn = "duplicate" /\ fnCall.session = gameState =>
        Answers = fnCall.before

\* a game goes on over a list that holds two rows for the same two people,
\* one of which has been revealed as a connection
C24_Witness ==
    /\ \E i, j \in DOMAIN connections :
         /\ i # j
         /\ { connections[i].name1, connections[i].name2 }
              = { connections[j].name1, connections[j].name2 }
         /\ { connections[i].name1, connections[i].name2 }
              \in Edges(gameState.revealedConnections)
    /\ fnCall.fn = "duplicate"
    /\ fnCall.session = gameState
    /\ InProgress(gameState)

\* the fields of a session other than the clock
Session(gs) ==
    [ revealedPeople |-> gs.revealedPeople,
      revealedConnections |-> gs.revealedConnections,
      attempts |-> gs.attempts,
      gameStarted |-> gs.gameStarted,
      gameWon |-> gs.gameWon,
      gameLost |-> gs.gameLost,
      score |-> gs.score ]

\* a guess is submitted: by handleSearch or by the call selectSuggestion deferred
Submission == DeferredSearch \/ \E typed \in RawInputs : HandleSearch(typed)

(* C25: apart from start, only a guess submission changes revealedPeople,   *)
(* revealedConnections, attempts, the status or the score: a step that      *)
(* changes one of them is startNewGame or a submission; a tick of the timer *)
(* happens only while the game is in progress and changes timeElapsed only; *)
(* getHint changes no field of the session.                                 *)
C25_OnlyGuessesChangeSession ==
    [][ /\ Session(gameState') # Session(gameState) => StartNewGame \/ Submission
        /\ Tick => /\ InProgress(gameState)
                   /\ gameState' = [ gameState EXCEPT !.timeElapsed = gameState'.timeElapsed ]
        /\ GetHint => gameState' = gameState
        /\ HintTimeout => gameState' = gameState ]_vars

\* a hint is on show in a game whose clock has run, nothing having been guessed
C25_Witness ==
    /\ InProgress(gameState)
    /\ hint # ""
    /\ gameState.timeElapsed > 0
    /\ gameState.attempts = 0

\* the reports that reject a guess
Rejections == { "NotFound", "AlreadyRevealed", "NoLinkToRevealed" }

(* C26: every guess outcome is observable: once a guess has been rejected   *)
(* as NotFound, AlreadyRevealed or NoLinkToRevealed, searchError holds the  *)
(* message of that outcome, and it keeps it until the search text is edited *)
(* or another guess is submitted (or a new game started): the handler's own *)
(* reset of the search text does not clear it.                              *)
C26_RejectionStaysShown ==
    [][ /\ Submission /\ result' \in Rejections => searchError' = ErrorMessage(result')
        /\ Tick \/ GetHint \/ HintTimeout => searchError' = searchError ]_vars

(* C28: the two reveal games are the same engine: from the same edge list, *)
(* start, target and maxAttempts, handleSearch of part_001 and             *)
(* handleSearchWithName of ConnectGame.tsx lead to the same revealedPeople, *)
(* revealedConnections, attempts and status after every sequence of        *)
(* guesses; here: from every session the game reaches, on every guess.     *)
C28_SameEngine ==
    fnCall.fn = "handleSearch" /\ fnCall.from = gameState =>
        LET mine  == handleSearchWithName(gameState, gameState, fnCall.searchQuery).state
            other == fnCall.state
        IN /\ other.revealedPeople = mine.revealedPeople
           /\ other.revealedConnections = mine.revealedConnections
           /\ other.attempts = mine.attempts
           /\ other.gameStarted = mine.gameStarted
           /\ other.gameWon = mine.gameWon
           /\ other.gameLost = mine.gameLost

\* the row of the table with this id
RowOf(connectionId) == db.rows[connectionId]

(* C27: moderation gate: handleSubmit of AddConnection stores the           *)
(* connection with status 'pending'; what the graph and the game hold after *)
(* a fetch is the rows whose status is 'accepted' at that moment, nothing   *)
(* else; and a row that came through AddConnection is in the graph or the   *)
(* game only after an admin has set its status.                             *)
C27_ModerationGate ==
    /\ [][ /\ Submit /\ Len(db'.rows) > Len(db.rows)
               => db'.rows[Len(db'.rows)].status = "pending"
           /\ GraphFetchData =>
                 /\ \A i \in DOMAIN graphConnections' :
                       RowOf(graphConnections'[i].id).status = "accepted"
                 /\ \A k \in DOMAIN db.rows :
                       db.rows[k].status = "accepted" =>
                          \E i \in DOMAIN graphConnections' : graphConnections'[i].id = k
           /\ GameFetchData =>
                 /\ \A i \in DOMAIN connections' :
                       \E k \in DOMAIN db.rows :
                          /\ db.rows[k].status = "accepted"
                          /\ connections'[i] = Conn(<< db.rows[k].name1, db.rows[k].name2 >>)
                 /\ Len(connections') =
                       Cardinality({ k \in DOMAIN db.rows : db.rows[k].status = "accepted" })
         ]_vars
    /\ [](\A i \in DOMAIN graphConnections :
            RowOf(graphConnections[i].id).via = "AddConnection" =>
               is_user_admin(RowOf(graphConnections[i].id).setBy))

\* the graph shows a connection that came through the form and was approved
\* while another row of the table is still pending
C27_Witness ==
    /\ \E i \in DOMAIN graphConnections :
          RowOf(graphConnections[i].id).via = "AddConnection"
    /\ \E k \in DOMAIN db.rows : db.rows[k].status = "pending"
    /\ ~loading
    /\ connections # << >>

(* C29: under the row-level-security policies every change of a status is   *)
(* made by an admin: a row has status 'accepted' only if an admin (or the   *)
(* migration) gave it that status; no other authenticated user can make     *)
(* such a row exist, by INSERT or by UPDATE.                                *)
C29_OnlyAdminsAccept ==
    \A k \in DOMAIN db.rows :
       db.rows[k].status = "accepted" =>
          db.rows[k].setBy = "migration" \/ is_user_admin(db.rows[k].setBy)

(* C30: the status migration keeps the existing connections visible: after *)
(* it every row that was in the table before has status 'accepted', and a  *)
(* row inserted afterwards with no status given gets 'pending'.            *)
C30_MigrationKeepsVisible ==
    \A k \in DOMAIN db.rows :
       /\ db.statusColumn /\ db.rows[k].era = "before" /\ db.rows[k].setBy \notin Users
             => db.rows[k].status = "accepted"
       /\ db.rows[k].era = "after" /\ db.rows[k].setBy = "default"
             => db.rows[k].status = "pending"

(* C31: hint soundness: whenever getHint proposes a person X in a game in   *)
(* progress, X is a person of the graph, is not revealed, is directly       *)
(* connected to a revealed person and has a path to the target in the full  *)
(* graph; so the guess X submitted right after it is accepted.              *)
C31_HintSound ==
    [][ GetHint /\ InProgress(gameState) =>
          \A X \in GraphNames :
             hint' = "Tente: " \o X =>
                /\ X \in AllPeople(connections)
                /\ X \notin Revealed(gameState')
                /\ \E revealed \in Revealed(gameState') : areDirectlyConnected(X, revealed)
                /\ findShortestPath(X, gameState'.targetPerson) # NoPath
                /\ handleSearchWithName(gameState', gameState', X).report = "Accepted"
      ]_vars

\* a person is proposed while another person, in no way linked to the
\* revealed ones, would not be
C31_Witness ==
    /\ InProgress(gameState)
    /\ \E X \in AllPeople(connections) : hint = "Tente: " \o X
    /\ \E Y \in AllPeople(connections) \ Revealed(gameState) :
          \A revealed \in Revealed(gameState) : ~areDirectlyConnected(Y, revealed)

(* C32: in the network graph, a tap on a node that is not selected selects *)
(* it and highlights its connections, and a tap on the selected node        *)
(* deselects it: selectedPerson becomes null and every highlight is         *)
(* cleared; for every sequence of taps on an instance that is not rebuilt.  *)
C32_TapTogglesSelection ==
    fnCall.fn = "tap" =>
        IF fnCall.selectedPerson = fnCall.nodeId
        THEN selectedPerson = "null" /\ cy.classes = NoHighlights
        ELSE /\ selectedPerson = fnCall.nodeId
             /\ cy.classes = highlightConnections(fnCall.nodeId)

(* C33: in every started state of the reveal game, every revealed person    *)
(* other than start and target is joined to start or to target by a chain   *)
(* of revealed connections: the revealed subgraph has at most the two       *)
(* components of start and of target.                                       *)
C33_RevealedJoinedToEnds ==
    gameState.gameStarted =>
        Revealed(gameState) \subseteq
            Component({ gameState.startPerson, gameState.targetPerson },
                      Edges(gameState.revealedConnections))

(* C34: in every started state of the reveal game, revealedConnections      *)
(* holds exactly one entry for each unordered pair of distinct revealed     *)
(* people who are directly connected in the full graph, except the pair     *)
(* {start, target}, for which it never holds an entry; no pair twice.       *)
C34_OneEntryPerRevealedPair ==
    gameState.gameStarted =>
        LET rc   == gameState.revealedConnections
            ends == { gameState.startPerson, gameState.targetPerson }
        IN /\ \A i, j \in DOMAIN rc :
                 i # j => { rc[i].source, rc[i].target } # { rc[j].source, rc[j].target }
           /\ ends \notin Edges(rc)
           /\ \A a, b \in Revealed(gameState) :
                 a # b /\ { a, b } # ends =>
                    (areDirectlyConnected(a, b) <=> { a, b } \in Edges(rc))

(* C35: bounded termination of a session: every guess processed while the  *)
(* game is in progress, other than an empty or an AlreadyRevealed guess,    *)
(* increases attempts by exactly 1, and attempts never decreases except on  *)
(* start; hence a game in progress has attempts below maxAttempts and is    *)
(* won or lost after at most maxAttempts such guesses.                      *)
C35_AttemptsCountGuesses ==
    [][ /\ \A name \in GuessNames :
              /\ GuessStep(name)
              /\ InProgress(gameState)
              /\ result' \notin { "Ignored", "AlreadyRevealed" }
              => gameState'.attempts = gameState.attempts + 1
        /\ gameState'.attempts < gameState.attempts => StartNewGame
        /\ InProgress(gameState') => gameState'.attempts < gameState'.maxAttempts
      ]_vars

(* C36: guesses are applied one at a time to the current session: the guess *)
(* deferred by selectSuggestion, when it runs after another guess or after  *)
(* startNewGame has replaced the state, leaves what the same guess applied  *)
(* to the session of that moment leaves: revealedPeople, revealedConnections *)
(* and attempts are never computed from the older state.                    *)
C36_DeferredGuessOnCurrentSession ==
    [][ DeferredSearch =>
          LET current == handleSearchWithName(gameState, gameState,
                                              Head(pending).name).state
          IN /\ gameState'.revealedPeople = current.revealedPeople
             /\ gameState'.revealedConnections = current.revealedConnections
             /\ gameState'.attempts = current.attempts
      ]_vars

\* the toasts of a submission that failed
FailureToasts ==
    { "Instagram obrigatorio", "Ocorreu um erro inesperado", "Erro ao criar conexao" }

(* C37: a failed AddConnection submission changes nothing: when handleSubmit *)
(* fails because a person not yet known was given without an Instagram, or  *)
(* because an insert returned an error, neither the names table nor the     *)
(* connections table holds a row it did not hold before the submission.     *)
C37_FailedSubmitChangesNothing ==
    [][ Submit /\ result' \in FailureToasts =>
          /\ db'.names = db.names
          /\ db'.rows = db.rows ]_vars

====
